---- MODULE Spec2Model ----
(***************************************************************************)
(* A model of telebot_models/models.py: pydantic records stored in mongo   *)
(* collections through BaseModelManager, the relation_map registry, the    *)
(* generated relation accessors and the cascading delete.                  *)
(*                                                                         *)
(* The application modelled on top of the library declares three record    *)
(* types, P (parent), C (child) and G (grandchild), each with its manager, *)
(* and registers two relations:                                            *)
(*     @PManager.relation_map('p_ref', 'id')  class C                      *)
(*     @CManager.relation_map('c_ref', 'id')  class G                      *)
(* A call that awaits several store calls (delete, a relation accessor)    *)
(* takes one step per await; a call that awaits one store call (insert,    *)
(* update, find_one, delete_many, update_many) is one step.  The caller    *)
(* takes the outcome of a finished call in a step of its own.              *)
(***************************************************************************)
EXTENDS Naturals, Integers, Sequences, FiniteSets, TLC

VARIABLES
    relation_map,   \* BaseModelManager._relation_map, the one class-level list
    store,          \* the collections: type -> set of documents
    next_id,        \* the next ObjectId the generator hands out
    objs,           \* the in-memory Model instances, by reference
    mgrs,           \* the in-memory manager instances, by reference
    stack,          \* per task: the coroutine frames of the running call
    call,           \* per task: the running or last call and its outcome
    log             \* per task: the store calls the running or last call made

vars == <<relation_map, store, next_id, objs, mgrs, stack, call, log>>

----------------------------------------------------------------------------
(* Bounds of the model *)

MaxP == 1          \* P documents an initial store may hold
MaxC == 2          \* C documents an initial store may hold
MaxG == 1          \* G documents an initial store may hold

Tasks == {"t1", "t2"}
MgrRefs == {"m", "n"}   \* the manager references the application holds
Types == {"P", "C", "G"}
None == 0

PIds == 1..MaxP
CIds == (MaxP + 1)..(MaxP + MaxC)
GIds == (MaxP + MaxC + 1)..(MaxP + MaxC + MaxG)
InitIds == 1..(MaxP + MaxC + MaxG)
FirstFresh == MaxP + MaxC + MaxG + 1   \* the first ObjectId not in an initial store
Vals == {0, 1}

----------------------------------------------------------------------------
(* The records of the application and their documents *)

\* the declared fields of each Model subclass ('id' comes from Model)
Fields(ty) ==
    CASE ty = "P" -> {"id", "val"}
      [] ty = "C" -> {"id", "p_ref"}
      [] ty = "G" -> {"id", "c_ref"}

\* Field(alias='_id'): the key a field has in a document
Alias(f) == IF f = "id" THEN "_id" ELSE f

\* the field a document key populates (allow_population_by_field_name)
FieldOf(k) == IF k = "_id" THEN "id" ELSE k

\* an optional argument: <<>> when it is not given (None), <<v>> when it is
Given(v) == <<v>>
NotGiven == <<>>

\* model.dict(by_alias=True, exclude=exclude, include=include)
ModelDict(fields, include, exclude) ==
    LET byInc == IF include = NotGiven THEN DOMAIN fields ELSE DOMAIN fields \cap include[1]
        keep  == IF exclude = NotGiven THEN byInc ELSE byInc \ exclude[1]
    IN  [k \in {Alias(f) : f \in keep} |-> fields[FieldOf(k)]]

\* whether model.parse_obj(document) validates: every declared field but
\* 'id' (which has a default factory) is required
Parses(ty, doc) == \A f \in Fields(ty) \ {"id"} : Alias(f) \in DOMAIN doc

\* the fields of model.parse_obj(document); fresh is the ObjectId the
\* default factory makes when the document has no _id
ParseObj(ty, doc, fresh) ==
    [f \in Fields(ty) |->
        IF Alias(f) \in DOMAIN doc THEN doc[Alias(f)]
        ELSE IF f \in DOMAIN doc THEN doc[f]
        ELSE fresh]

Rec(ty, fields) == [type |-> ty, fields |-> fields]

----------------------------------------------------------------------------
(* Filters and the store's query semantics *)

Eq(v) == [op |-> "eq", v |-> {v}]
In(vs) == [op |-> "in", v |-> vs]

EmptyFilter == [k \in {} |-> None]
OneKey(k, cond) == [x \in {k} |-> cond]

\* {**a, **b}
DictMerge(a, b) ==
    [k \in DOMAIN a \cup DOMAIN b |-> IF k \in DOMAIN b THEN b[k] ELSE a[k]]

\* whether a document matches a filter document
Matches(doc, df) ==
    \A k \in DOMAIN df :
        /\ k \in DOMAIN doc
        /\ IF df[k].op = "eq" THEN {doc[k]} = df[k].v ELSE doc[k] \in df[k].v

Find(ty, df) == {d \in store[ty] : Matches(d, df)}

\* the orders in which a cursor may return a set of documents
Orderings(S) ==
    {s \in [1..Cardinality(S) -> S] : \A i, j \in DOMAIN s : s[i] = s[j] => i = j}

----------------------------------------------------------------------------
(* Registration *)

\* what the decorator appends: (model_cls, field_name, model_field_name)
Edge(child, field_name, model_field_name) ==
    [child |-> child, field_name |-> field_name, model_field_name |-> model_field_name]

\* the relation_map decorators of the application, with the manager each
\* is called on
AppRelations ==
    { [parent |-> "P", edge |-> Edge("C", "p_ref", "id")],
      [parent |-> "C", edge |-> Edge("G", "c_ref", "id")] }

Registered(r) == \E i \in DOMAIN relation_map : relation_map[i] = r.edge
Started == \A r \in AppRelations : Registered(r)

\* cls.relation_map(field_name, model_field_name)(model_cls): the append
\* goes to the list found through cls, which is the list of BaseModelManager
RegisterRelation(r) ==
    /\ ~Registered(r)
    /\ relation_map' = Append(relation_map, r.edge)
    /\ UNCHANGED <<store, next_id, objs, mgrs, stack, call, log>>

----------------------------------------------------------------------------
(* Calls *)

NoCall == [op |-> "none", status |-> "idle"]

\* a manager instance and its document_filter; a reference bound to nothing
Manager(ty, df) == [type |-> ty, document_filter |-> df]
NoMgr == [type |-> "none"]
NoManagers == [x \in MgrRefs |-> NoMgr]

Raise(t, err) ==
    /\ stack' = [stack EXCEPT ![t] = <<>>]
    /\ call' = [call EXCEPT ![t].status = "error", ![t].err = err]

\* an entry of log: a call of the collection, the record or filter it was
\* made for and, for a find, the records it returned
StoreCall(op, ty, model, res) == [op |-> op, coll |-> ty, model |-> model, res |-> res]

\* no call is running and no outcome is waiting for its caller
Idle == \A t \in Tasks : call[t] = NoCall

\* the caller takes the outcome of its call (the returned value or the
\* exception) and goes on
Finish(t) ==
    /\ call[t].status \in {"ok", "error"}
    /\ call' = [call EXCEPT ![t] = NoCall]
    /\ log' = [log EXCEPT ![t] = <<>>]
    /\ UNCHANGED <<relation_map, store, next_id, objs, mgrs, stack>>

----------------------------------------------------------------------------
(* BaseModelManager.delete: the cascade *)

\* (variant) delete() that goes straight to its own document, the loop over
\* the relations left out
FrameNoCascade(model) ==
    [model |-> model, edge |-> Len(relation_map) + 1, objs |-> <<>>, k |-> 0]

\* a frame of BaseModelManager.delete(model): the edge of _relation_map the
\* loop is at, the objs fetched for it and the index of the obj whose
\* delete() is awaited (0 before the fetch)
Frame(model) == [model |-> model, edge |-> 1, objs |-> <<>>, k |-> 0]

Top(t) == stack[t][Len(stack[t])]
Below(t) == SubSeq(stack[t], 1, Len(stack[t]) - 1)

\* (variant) the inner loop left after its first obj
ResumeFirstOnly(stk) ==
    IF stk = <<>> THEN stk
    ELSE LET f == stk[Len(stk)]
             rest == SubSeq(stk, 1, Len(stk) - 1)
         IN  IF f.k = 0 /\ Len(f.objs) > 0
             THEN rest \o << [f EXCEPT !.k = 1], Frame(f.objs[1]) >>
             ELSE rest \o << [f EXCEPT !.edge = f.edge + 1, !.objs = <<>>, !.k = 0] >>

\* the frame after the obj it awaits has returned: the next obj of the
\* list, or the next edge
Resume(stk) ==
    IF stk = <<>> THEN stk
    ELSE LET f == stk[Len(stk)]
             rest == SubSeq(stk, 1, Len(stk) - 1)
         IN  IF f.k < Len(f.objs)
             THEN rest \o << [f EXCEPT !.k = f.k + 1], Frame(f.objs[f.k + 1]) >>
             ELSE rest \o << [f EXCEPT !.edge = f.edge + 1, !.objs = <<>>, !.k = 0] >>

\* await model.delete() / await cls.delete(model), up to the first await
DeleteStart(t, model) ==
    /\ Started
    /\ call[t] = NoCall
    /\ stack' = [stack EXCEPT ![t] = << Frame(model) >>]
    /\ call' = [call EXCEPT ![t] =
                  [op |-> "delete", status |-> "running", arg |-> model,
                   pre |-> store, err |-> "", ret |-> None]]
    /\ log' = [log EXCEPT ![t] = <<>>]
    /\ UNCHANGED <<relation_map, store, next_id, objs, mgrs>>

\* delete() of a record that was read from the store
DeleteFetched(t) ==
    \E ty \in Types : \E d \in store[ty] :
        /\ Parses(ty, d)
        /\ DeleteStart(t, Rec(ty, ParseObj(ty, d, None)))

\* objs = await _cls.manager({field_name: getattr(model, model_field_name)}).find_all()
DeleteFindAll(t) ==
    /\ stack[t] # <<>>
    /\ call[t].op = "delete"
    /\ Top(t).edge <= Len(relation_map)
    /\ LET f == Top(t)
           e == relation_map[f.edge]
       IN  IF e.model_field_name \notin DOMAIN f.model.fields
           THEN /\ Raise(t, "AttributeError")
                /\ UNCHANGED <<relation_map, store, next_id, objs, mgrs, log>>
           ELSE LET df == OneKey(e.field_name, Eq(f.model.fields[e.model_field_name]))
                    found == Find(e.child, df)
                    valid == \A d \in found : Parses(e.child, d)
                IN  \E ok \in BOOLEAN : \E order \in Orderings(found) :
                      LET fetched == [i \in DOMAIN order |->
                                        Rec(e.child, ParseObj(e.child, order[i], None))]
                      IN  /\ log' = [log EXCEPT ![t] = Append(@,
                                 StoreCall("find", e.child, f.model,
                                           IF ok /\ valid THEN fetched ELSE <<>>))]
                          /\ IF ~ok
                             THEN Raise(t, "PersistenceError")
                             ELSE IF ~valid
                             THEN Raise(t, "ValidationError")
                             ELSE /\ stack' = [stack EXCEPT ![t] =
                                        Resume(Below(t) \o << [f EXCEPT !.objs = fetched] >>)]
                                  /\ UNCHANGED call
                          /\ UNCHANGED <<relation_map, store, next_id, objs, mgrs>>

\* (variant) a failed delete_one that is swallowed: the cascade goes on
DeleteOneSwallow(t) ==
    /\ stack[t] # <<>>
    /\ call[t].op = "delete"
    /\ Top(t).edge > Len(relation_map)
    /\ LET m == Top(t).model
           hit == Find(m.type, OneKey("_id", Eq(m.fields["id"])))
       IN  \E ok \in BOOLEAN :
             /\ log' = [log EXCEPT ![t] = Append(@, StoreCall("delete_one", m.type, m, <<>>))]
             /\ store' = IF ok THEN [store EXCEPT ![m.type] = @ \ hit] ELSE store
             /\ stack' = [stack EXCEPT ![t] = Resume(Below(t))]
             /\ call' = IF Len(stack[t]) = 1
                        THEN [call EXCEPT ![t].status = IF ok THEN "ok" ELSE "error",
                                          ![t].ret = Cardinality(hit)]
                        ELSE call
             /\ UNCHANGED <<relation_map, next_id, objs, mgrs>>

\* return await cls.get_collection().delete_one({'_id': model.id})
DeleteOne(t) ==
    /\ stack[t] # <<>>
    /\ call[t].op = "delete"
    /\ Top(t).edge > Len(relation_map)
    /\ LET m == Top(t).model
           hit == Find(m.type, OneKey("_id", Eq(m.fields["id"])))
       IN  \E ok \in BOOLEAN :
             /\ log' = [log EXCEPT ![t] = Append(@, StoreCall("delete_one", m.type, m, <<>>))]
             /\ IF ~ok
                THEN /\ Raise(t, "PersistenceError")
                     /\ UNCHANGED store
                ELSE /\ store' = [store EXCEPT ![m.type] = @ \ hit]
                     /\ stack' = [stack EXCEPT ![t] = Resume(Below(t))]
                     /\ call' = IF Len(stack[t]) = 1
                                THEN [call EXCEPT ![t].status = "ok",
                                                  ![t].ret = Cardinality(hit)]
                                ELSE call
             /\ UNCHANGED <<relation_map, next_id, objs, mgrs>>

----------------------------------------------------------------------------
(* BaseModelManager.delete_many *)

\* the documents a collection may hold initially
InitDocs(ty) ==
    CASE ty = "P" -> {[k \in {"_id", "val"} |-> IF k = "_id" THEN i ELSE 0] : i \in PIds}
      [] ty = "C" -> {[k \in {"_id", "p_ref"} |-> IF k = "_id" THEN i ELSE r] :
                         i \in CIds, r \in PIds}
      [] ty = "G" -> {[k \in {"_id", "c_ref"} |-> IF k = "_id" THEN i ELSE r] :
                         i \in GIds, r \in CIds}

\* the filters the application builds its managers with
Filters(ty) ==
    {EmptyFilter}
      \cup {OneKey("_id", Eq(d["_id"])) : d \in InitDocs(ty)}
      \cup (IF ty = "C" THEN {OneKey("p_ref", Eq(i)) : i \in PIds} ELSE {})
      \cup (IF ty = "G" THEN {OneKey("c_ref", Eq(i)) : i \in CIds} ELSE {})

\* (variant) a delete_many that also removes what references the matched
\* documents
DeleteManyCascade(t, ty, df) ==
    /\ Started
    /\ call[t] = NoCall
    /\ log' = [log EXCEPT ![t] = << StoreCall("delete_many", ty, df, <<>>) >>]
    /\ store' = [x \in Types |->
                   {d \in store[x] :
                       /\ ~(x = ty /\ Matches(d, df))
                       /\ \A k \in DOMAIN d \ {"_id", "val"} :
                             ~(\E m \in Find(ty, df) : m["_id"] = d[k])}]
    /\ call' = [call EXCEPT ![t] =
                  [op |-> "delete_many", status |-> "ok", arg |-> Rec(ty, df),
                   pre |-> store, err |-> "", ret |-> Cardinality(Find(ty, df))]]
    /\ UNCHANGED <<relation_map, next_id, objs, mgrs, stack>>

\* await manager.delete_many() on a manager of type ty whose document_filter is df
DeleteManyOp(t, ty, df) ==
    /\ Started
    /\ call[t] = NoCall
    /\ \E ok \in BOOLEAN :
         /\ log' = [log EXCEPT ![t] = << StoreCall("delete_many", ty, df, <<>>) >>]
         /\ store' = IF ok THEN [store EXCEPT ![ty] = @ \ Find(ty, df)] ELSE store
         /\ call' = [call EXCEPT ![t] =
                       [op |-> "delete_many", status |-> IF ok THEN "ok" ELSE "error",
                        arg |-> Rec(ty, df), pre |-> store,
                        err |-> IF ok THEN "" ELSE "PersistenceError",
                        ret |-> IF ok THEN Cardinality(Find(ty, df)) ELSE None]]
    /\ UNCHANGED <<relation_map, next_id, objs, mgrs, stack>>

\* cls(document_filter).delete_many()
DeleteMany(t) == \E ty \in Types : \E df \in Filters(ty) : DeleteManyOp(t, ty, df)

----------------------------------------------------------------------------
(* The cascade on its own: any store within the bounds, the registration, *)
(* then delete and delete_many calls, one call at a time                  *)

\* _id is unique within a collection
UniqueIds(S) == \A d1, d2 \in S : d1["_id"] = d2["_id"] => d1 = d2

\* the collections a store may hold initially
InitColls(ty) == {S \in SUBSET InitDocs(ty) : UniqueIds(S)}

InitCascade ==
    /\ relation_map = <<>>
    /\ \E p \in InitColls("P") : \E c \in InitColls("C") : \E g \in InitColls("G") :
          store = [ty \in Types |-> CASE ty = "P" -> p [] ty = "C" -> c [] ty = "G" -> g]
    /\ next_id = FirstFresh
    /\ objs = <<>>
    /\ mgrs = NoManagers
    /\ stack = [t \in Tasks |-> <<>>]
    /\ call = [t \in Tasks |-> NoCall]
    /\ log = [t \in Tasks |-> <<>>]

NextCascade ==
    \/ \E r \in AppRelations : RegisterRelation(r)
    \/ \E t \in Tasks : Idle /\ DeleteFetched(t)
    \/ \E t \in Tasks : DeleteFindAll(t)
    \/ \E t \in Tasks : DeleteOne(t)
    \/ \E t \in Tasks : Idle /\ DeleteMany(t)
    \/ \E t \in Tasks : Finish(t)

SpecCascade == InitCascade /\ [][NextCascade]_vars

----------------------------------------------------------------------------
(* BaseModelManager.update_many *)

\* the update documents the application passes: {'$set': {field: value}}
Updates(ty) ==
    CASE ty = "P" -> {OneKey("val", v) : v \in Vals}
      [] ty = "C" -> {OneKey("p_ref", i) : i \in PIds}
      [] ty = "G" -> {OneKey("c_ref", i) : i \in CIds}

\* await manager.update_many({'$set': upd}) on a manager of type ty whose
\* document_filter is df
UpdateManyOp(t, ty, df, upd) ==
    /\ Started
    /\ call[t] = NoCall
    /\ \E ok \in BOOLEAN :
         /\ log' = [log EXCEPT ![t] = << StoreCall("update_many", ty, df, <<>>) >>]
         /\ store' = IF ok
                     THEN [store EXCEPT ![ty] =
                             {IF Matches(d, df) THEN DictMerge(d, upd) ELSE d : d \in @}]
                     ELSE store
         /\ call' = [call EXCEPT ![t] =
                       [op |-> "update_many", status |-> IF ok THEN "ok" ELSE "error",
                        arg |-> Rec(ty, df), pre |-> store,
                        err |-> IF ok THEN "" ELSE "PersistenceError",
                        ret |-> IF ok THEN Cardinality(Find(ty, df)) ELSE None]]
    /\ UNCHANGED <<relation_map, next_id, objs, mgrs, stack>>

----------------------------------------------------------------------------
(* Model instances and the reverse accessor obj() of a relation *)

MaxLoaded == 1     \* instances the application reads from the store
MaxLookups == 2    \* lookups an instance's accessors may issue

\* _CustomCache(): an object without attributes
EmptyCache == [k \in {} |-> None]

\* an instance: its class, its fields, its __custom_cache__; loaded tells
\* the instances the application made or read from those a lookup made,
\* lookups counts the find_one calls issued for the instance's accessors,
\* inserted tells whether an insert of the instance has succeeded
Instance(ty, fields, loaded) ==
    [type |-> ty, fields |-> fields, cache |-> EmptyCache,
     loaded |-> loaded, lookups |-> 0, inserted |-> FALSE]

\* rel_obj_name = cls.__name__.replace('ModelManager', '').lower()
RelObjName(parent) ==
    CASE parent = "P" -> "p" [] parent = "C" -> "c" [] parent = "G" -> "g"

\* '__cached_' + rel_obj_name + '__'
CachedKey(r) == RelObjName(r.parent)

\* getattr(self.__custom_cache__, __cached_key__, None)
Cached(o, key) == IF key \in DOMAIN o.cache THEN o.cache[key] ELSE None

\* the application reads a document into a new instance (parse_obj)
Load(ty, d) ==
    /\ Started
    /\ Idle
    /\ d \in store[ty]
    /\ Parses(ty, d)
    /\ Cardinality({h \in DOMAIN objs : objs[h].loaded}) < MaxLoaded
    /\ objs' = Append(objs, Instance(ty, ParseObj(ty, d, None), TRUE))
    /\ UNCHANGED <<relation_map, store, next_id, mgrs, stack, call, log>>

\* (variant) obj() without the test of the cache
ObjCallNoCache(t, h, r) ==
    /\ Started
    /\ call[t] = NoCall
    /\ r.edge.child = objs[h].type
    /\ log' = [log EXCEPT ![t] = <<>>]
    /\ objs[h].lookups < MaxLookups
    /\ stack' = [stack EXCEPT ![t] =
          << [self |-> h, rel |-> r, pc |-> "find_one",
              df |-> DictMerge(EmptyFilter,
                               OneKey("_id", Eq(objs[h].fields[r.edge.field_name]))),
              doc |-> <<>>] >>]
    /\ call' = [call EXCEPT ![t] =
                  [op |-> "obj", status |-> "running", arg |-> h, rel |-> r,
                   pre |-> store, err |-> "", ret |-> None]]
    /\ objs' = [objs EXCEPT ![h].lookups = @ + 1]
    /\ UNCHANGED <<relation_map, store, next_id, mgrs>>

\* await self.<rel_obj_name>() up to its first await: the cached value is
\* returned, or cls().find_one(getattr(self, field_name)) is entered, which
\* puts the identifier under '_id' into the filter of the new manager
ObjCall(t, h, r) ==
    /\ Started
    /\ call[t] = NoCall
    /\ r.edge.child = objs[h].type
    /\ log' = [log EXCEPT ![t] = <<>>]
    /\ IF Cached(objs[h], CachedKey(r)) # None
       THEN /\ call' = [call EXCEPT ![t] =
                          [op |-> "obj", status |-> "ok", arg |-> h, rel |-> r,
                           pre |-> store, err |-> "",
                           ret |-> Cached(objs[h], CachedKey(r))]]
            /\ UNCHANGED <<stack, objs>>
       ELSE /\ objs[h].lookups < MaxLookups
            /\ stack' = [stack EXCEPT ![t] =
                  << [self |-> h, rel |-> r, pc |-> "find_one",
                      df |-> DictMerge(EmptyFilter,
                                       OneKey("_id", Eq(objs[h].fields[r.edge.field_name]))),
                      doc |-> <<>>] >>]
            /\ call' = [call EXCEPT ![t] =
                          [op |-> "obj", status |-> "running", arg |-> h, rel |-> r,
                           pre |-> store, err |-> "", ret |-> None]]
            /\ objs' = [objs EXCEPT ![h].lookups = @ + 1]
    /\ UNCHANGED <<relation_map, store, next_id, mgrs>>

\* document = await self.get_collection().find_one(self.document_filter)
ObjFindOne(t) ==
    /\ stack[t] # <<>>
    /\ call[t].op = "obj"
    /\ Top(t).pc = "find_one"
    /\ LET f == Top(t)
           found == Find(f.rel.parent, f.df)
       IN  \E ok \in BOOLEAN :
             /\ log' = [log EXCEPT ![t] = Append(@, StoreCall("find_one", f.rel.parent, f.df, <<>>))]
             /\ IF ~ok
                THEN Raise(t, "PersistenceError")
                ELSE /\ \E doc \in (IF found = {} THEN {<<>>} ELSE {<<d>> : d \in found}) :
                          stack' = [stack EXCEPT ![t] =
                                      << [f EXCEPT !.pc = "return", !.doc = doc] >>]
                     /\ UNCHANGED call
    /\ UNCHANGED <<relation_map, store, next_id, objs, mgrs>>

\* (variant) obj() that keeps a marker under the cached key when find_one
\* finds no document
ObjReturnCachesMissing(t) ==
    /\ stack[t] # <<>>
    /\ call[t].op = "obj"
    /\ Top(t).pc = "return"
    /\ LET f == Top(t)
           parent == f.rel.parent
           key == CachedKey(f.rel)
       IN  IF f.doc = <<>>
           THEN /\ Raise(t, "ValueError")
                /\ objs' = [objs EXCEPT ![f.self].cache = DictMerge(@, OneKey(key, -1))]
           ELSE LET new == Len(objs) + 1
                    made == Append(objs, Instance(parent, ParseObj(parent, f.doc[1], None), FALSE))
                IN  /\ objs' = [made EXCEPT ![f.self].cache =
                                   DictMerge(@, OneKey(key, new))]
                    /\ stack' = [stack EXCEPT ![t] = <<>>]
                    /\ call' = [call EXCEPT ![t].status = "ok", ![t].ret = new]
    /\ UNCHANGED <<relation_map, store, next_id, mgrs, log>>

\* (variant) obj() that tests the cache again after the await and keeps
\* what another call has put there meanwhile
ObjReturnFirstWins(t) ==
    /\ stack[t] # <<>>
    /\ call[t].op = "obj"
    /\ Top(t).pc = "return"
    /\ LET f == Top(t)
           parent == f.rel.parent
           key == CachedKey(f.rel)
       IN  IF f.doc = <<>>
           THEN /\ Raise(t, "ValueError")
                /\ UNCHANGED objs
           ELSE IF ~Parses(parent, f.doc[1])
           THEN /\ Raise(t, "ValidationError")
                /\ UNCHANGED objs
           ELSE IF Cached(objs[f.self], key) # None
           THEN /\ UNCHANGED objs
                /\ stack' = [stack EXCEPT ![t] = <<>>]
                /\ call' = [call EXCEPT ![t].status = "ok",
                                        ![t].ret = Cached(objs[f.self], key)]
           ELSE LET new == Len(objs) + 1
                    made == Append(objs, Instance(parent, ParseObj(parent, f.doc[1], None), FALSE))
                IN  /\ objs' = [made EXCEPT ![f.self].cache =
                                   DictMerge(@, OneKey(key, new))]
                    /\ stack' = [stack EXCEPT ![t] = <<>>]
                    /\ call' = [call EXCEPT ![t].status = "ok", ![t].ret = new]
    /\ UNCHANGED <<relation_map, store, next_id, mgrs, log>>

\* (variant) obj() with one cache for all instances of a document: the
\* parent is kept under the cached key of every instance with the same id
ObjReturnSharedCache(t) ==
    /\ stack[t] # <<>>
    /\ call[t].op = "obj"
    /\ Top(t).pc = "return"
    /\ LET f == Top(t)
           parent == f.rel.parent
           key == CachedKey(f.rel)
       IN  IF f.doc = <<>>
           THEN /\ Raise(t, "ValueError")
                /\ UNCHANGED objs
           ELSE IF ~Parses(parent, f.doc[1])
           THEN /\ Raise(t, "ValidationError")
                /\ UNCHANGED objs
           ELSE LET new == Len(objs) + 1
                    made == Append(objs, Instance(parent, ParseObj(parent, f.doc[1], None), FALSE))
                IN  /\ objs' = [h \in DOMAIN made |->
                                  IF /\ h \in DOMAIN objs
                                     /\ objs[h].type = objs[f.self].type
                                     /\ objs[h].fields["id"] = objs[f.self].fields["id"]
                                  THEN [made[h] EXCEPT !.cache = DictMerge(@, OneKey(key, new))]
                                  ELSE made[h]]
                    /\ stack' = [stack EXCEPT ![t] = <<>>]
                    /\ call' = [call EXCEPT ![t].status = "ok", ![t].ret = new]
    /\ UNCHANGED <<relation_map, store, next_id, mgrs, log>>

\* find_one after its await, then the rest of obj(): no document raises
\* ValueError; a document is parsed, kept under the cached key and returned
ObjReturn(t) ==
    /\ stack[t] # <<>>
    /\ call[t].op = "obj"
    /\ Top(t).pc = "return"
    /\ LET f == Top(t)
           parent == f.rel.parent
           key == CachedKey(f.rel)
       IN  IF f.doc = <<>>
           THEN /\ Raise(t, "ValueError")
                /\ UNCHANGED objs
           ELSE IF ~Parses(parent, f.doc[1])
           THEN /\ Raise(t, "ValidationError")
                /\ UNCHANGED objs
           ELSE LET new == Len(objs) + 1
                    made == Append(objs, Instance(parent, ParseObj(parent, f.doc[1], None), FALSE))
                IN  /\ objs' = [made EXCEPT ![f.self].cache =
                                   DictMerge(@, OneKey(key, new))]
                    /\ stack' = [stack EXCEPT ![t] = <<>>]
                    /\ call' = [call EXCEPT ![t].status = "ok", ![t].ret = new]
    /\ UNCHANGED <<relation_map, store, next_id, mgrs, log>>

----------------------------------------------------------------------------
(* The accessors on their own: a store with any parents and one child,    *)
(* the registration, instances of the child read from the store, obj()    *)
(* calls and, in between, update_many and delete_many calls on the        *)
(* parents; one call at a time                                            *)

InitRelation ==
    /\ relation_map = <<>>
    /\ \E p \in InitColls("P") : \E c \in InitDocs("C") :
          store = [ty \in Types |-> CASE ty = "P" -> p [] ty = "C" -> {c} [] ty = "G" -> {}]
    /\ next_id = FirstFresh
    /\ objs = <<>>
    /\ mgrs = NoManagers
    /\ stack = [t \in Tasks |-> <<>>]
    /\ call = [t \in Tasks |-> NoCall]
    /\ log = [t \in Tasks |-> <<>>]

NextRelation ==
    \/ \E r \in AppRelations : RegisterRelation(r)
    \/ \E ty \in Types : \E d \in store[ty] : Load(ty, d)
    \/ \E t \in Tasks : \E h \in DOMAIN objs : \E r \in AppRelations : Idle /\ ObjCall(t, h, r)
    \/ \E t \in Tasks : ObjFindOne(t)
    \/ \E t \in Tasks : ObjReturn(t)
    \/ \E t \in Tasks : \E df \in Filters("P") : \E upd \in Updates("P") :
          Idle /\ UpdateManyOp(t, "P", df, upd)
    \/ \E t \in Tasks : \E df \in Filters("P") : Idle /\ DeleteManyOp(t, "P", df)
    \/ \E t \in Tasks : Finish(t)

SpecRelation == InitRelation /\ [][NextRelation]_vars

----------------------------------------------------------------------------
(* Managers: __init__, filter, find_one *)

\* the predicates the application passes to filter()
Preds(ty) ==
    Filters(ty)
      \cup (IF ty = "C" THEN {OneKey("p_ref", In(S)) : S \in SUBSET PIds \ {{}}} ELSE {})
      \cup (IF ty = "G" THEN {OneKey("c_ref", In(S)) : S \in SUBSET CIds \ {{}}} ELSE {})

\* document_filter or {}
OrEmpty(document_filter) ==
    IF document_filter = NotGiven THEN EmptyFilter ELSE document_filter[1]

\* x = cls(document_filter)
NewManager(x, ty, document_filter) ==
    /\ Idle
    /\ mgrs' = [mgrs EXCEPT ![x] = Manager(ty, OrEmpty(document_filter))]
    /\ UNCHANGED <<relation_map, store, next_id, objs, stack, call, log>>

\* (variant) a filter() that drops the filter the manager already has
FilterOpReplace(self, document_filter) ==
    Manager(self.type, OrEmpty(document_filter))

\* self.filter(document_filter): the manager it returns
FilterOp(self, document_filter) ==
    Manager(self.type, DictMerge(self.document_filter, OrEmpty(document_filter)))

\* n = src.filter(document_filter); the call is kept with the managers as
\* they were before it
Filter(t, src, document_filter) ==
    /\ Idle
    /\ mgrs[src] # NoMgr
    /\ mgrs' = [mgrs EXCEPT !["n"] = FilterOp(mgrs[src], document_filter)]
    /\ call' = [call EXCEPT ![t] =
                  [op |-> "filter", status |-> "ok", arg |-> src,
                   pred |-> OrEmpty(document_filter), pre |-> mgrs, err |-> "", ret |-> "n"]]
    /\ log' = [log EXCEPT ![t] = <<>>]
    /\ UNCHANGED <<relation_map, store, next_id, objs, stack>>

\* (variant) a find_one that raises on a missing document whatever
\* raise_exception says
FindOneAlwaysRaises(t, x, id, raise_exception) ==
    /\ Idle
    /\ mgrs[x] # NoMgr
    /\ LET self == mgrs[x]
           df == IF id # None THEN DictMerge(self.document_filter, OneKey("_id", Eq(id)))
                 ELSE self.document_filter
           found == Find(self.type, df)
       IN  /\ mgrs' = [mgrs EXCEPT ![x].document_filter = df]
           /\ log' = [log EXCEPT ![t] = << StoreCall("find_one", self.type, df, <<>>) >>]
           /\ \E doc \in (IF found = {} THEN {<<>>} ELSE {<<d>> : d \in found}) :
                 call' = [call EXCEPT ![t] =
                    [op |-> "find_one", arg |-> x, id |-> id, raise_exception |-> raise_exception,
                     pre |-> mgrs,
                     status |-> IF doc = <<>> THEN "error" ELSE "ok",
                     err |-> IF doc = <<>> THEN "ValueError" ELSE "",
                     ret |-> IF doc = <<>> THEN <<>>
                             ELSE << Rec(self.type, ParseObj(self.type, doc[1], None)) >>]]
    /\ UNCHANGED <<relation_map, store, next_id, objs, stack>>

\* await x.find_one(id, raise_exception=...) or, with id None, x.find_one(
\* raise_exception=...): an ObjectId is put under '_id' into the manager's
\* own document_filter; the outcome is the store's error, ValueError, no
\* record (<<>>) or the parsed record
FindOne(t, x, id, raise_exception) ==
    /\ Idle
    /\ mgrs[x] # NoMgr
    /\ LET self == mgrs[x]
           df == IF id # None THEN DictMerge(self.document_filter, OneKey("_id", Eq(id)))
                 ELSE self.document_filter
           found == Find(self.type, df)
       IN  /\ mgrs' = [mgrs EXCEPT ![x].document_filter = df]
           /\ log' = [log EXCEPT ![t] = << StoreCall("find_one", self.type, df, <<>>) >>]
           /\ \E ok \in BOOLEAN :
              \E doc \in (IF found = {} THEN {<<>>} ELSE {<<d>> : d \in found}) :
                 LET err == IF ~ok THEN "PersistenceError"
                            ELSE IF doc = <<>> /\ raise_exception THEN "ValueError"
                            ELSE IF doc # <<>> /\ ~Parses(self.type, doc[1]) THEN "ValidationError"
                            ELSE ""
                 IN  call' = [call EXCEPT ![t] =
                        [op |-> "find_one", arg |-> x, id |-> id,
                         raise_exception |-> raise_exception, pre |-> mgrs,
                         status |-> IF err = "" THEN "ok" ELSE "error",
                         err |-> err,
                         ret |-> IF err # "" \/ doc = <<>> THEN <<>>
                                 ELSE << Rec(self.type, ParseObj(self.type, doc[1], None)) >>]]
    /\ UNCHANGED <<relation_map, store, next_id, objs, stack>>

----------------------------------------------------------------------------
(* The managers on their own: any collection of children, managers of the *)
(* child type built and narrowed by filter(), and find_one calls          *)

InitManager ==
    /\ relation_map = <<>>
    /\ \E c \in InitColls("C") :
          store = [ty \in Types |-> IF ty = "C" THEN c ELSE {}]
    /\ next_id = FirstFresh
    /\ objs = <<>>
    /\ mgrs = NoManagers
    /\ stack = [t \in Tasks |-> <<>>]
    /\ call = [t \in Tasks |-> NoCall]
    /\ log = [t \in Tasks |-> <<>>]

NextManager ==
    \/ \E df \in {NotGiven} \cup {Given(f) : f \in Filters("C")} : NewManager("m", "C", df)
    \/ \E t \in Tasks : \E src \in MgrRefs :
          \E p \in {NotGiven} \cup {Given(f) : f \in Preds("C")} : Filter(t, src, p)
    \/ \E t \in Tasks : \E x \in MgrRefs : \E id \in CIds \cup {None} : \E re \in BOOLEAN :
          FindOne(t, x, id, re)
    \/ \E t \in Tasks : Finish(t)

SpecManager == InitManager /\ [][NextManager]_vars

----------------------------------------------------------------------------
(* Instances made by the application: insert, update, delete *)

MaxFresh == 3     \* ObjectIds the generator hands out

\* the values the application gives the fields of a new record
NewFields(ty) ==
    CASE ty = "P" -> {OneKey("val", v) : v \in Vals}
      [] ty = "C" -> {OneKey("p_ref", i) : i \in PIds}
      [] ty = "G" -> {OneKey("c_ref", i) : i \in CIds}

\* the include and exclude arguments the application passes
IncludeArgs(ty) == {NotGiven} \cup {Given(S) : S \in SUBSET Fields(ty) \ {{}}}
ExcludeArgs(ty) == {NotGiven} \cup {Given(S) : S \in SUBSET Fields(ty) \ {{}}}

\* the model's constructor: id comes from default_factory=PyObjectId
Construct(ty, given) ==
    /\ Started
    /\ Idle
    /\ objs = <<>>
    /\ next_id < FirstFresh + MaxFresh
    /\ objs' = Append(objs, Instance(ty, DictMerge(given, OneKey("id", next_id)), TRUE))
    /\ next_id' = next_id + 1
    /\ UNCHANGED <<relation_map, store, mgrs, stack, call, log>>

\* self.<field> = v, for a field other than id
Assign(h, given) ==
    /\ Idle
    /\ objs[h].loaded
    /\ objs' = [objs EXCEPT ![h].fields = DictMerge(@, given)]
    /\ UNCHANGED <<relation_map, store, next_id, mgrs, stack, call, log>>

\* the include and exclude that insert and update hand to model.dict
Selection(include, exclude) ==
    IF include # NotGiven
    THEN [include |-> include, exclude |-> NotGiven]
    ELSE [include |-> include,
          exclude |-> Given((IF exclude = NotGiven THEN {} ELSE exclude[1]) \cup {"id"})]

\* the caller's exclude object after insert or update has run: without
\* include, exclude.add('id') adds to the set the caller passed (exclude or
\* set() is that very set unless it is empty)
ExcludeAfter(include, exclude) ==
    IF include # NotGiven \/ exclude = NotGiven THEN exclude
    ELSE Given(exclude[1] \cup {"id"})

\* (variant) an insert that always lets the store assign the identifier
InsertAlwaysFresh(t, h, include, exclude) ==
    /\ call[t] = NoCall
    /\ next_id < FirstFresh + MaxFresh
    /\ LET o == objs[h]
           sel == Selection(include, exclude)
           given == ModelDict(o.fields, sel.include, sel.exclude)
           document == DictMerge(given, OneKey("_id", next_id))
       IN  /\ log' = [log EXCEPT ![t] = << StoreCall("insert_one", o.type, given, <<>>) >>]
           /\ store' = [store EXCEPT ![o.type] = @ \cup {document}]
           /\ next_id' = next_id + 1
           /\ objs' = [objs EXCEPT ![h].fields["id"] = document["_id"], ![h].inserted = TRUE]
           /\ call' = [call EXCEPT ![t] =
                [op |-> "insert", arg |-> h, include |-> include, exclude |-> exclude,
                 exclude_after |-> ExcludeAfter(include, exclude),
                 pre |-> store, status |-> "ok", err |-> "", ret |-> document["_id"]]]
    /\ UNCHANGED <<relation_map, mgrs, stack>>

\* (variant) an insert that does not write the identifier back
InsertNoWriteBack(t, h, include, exclude) ==
    /\ call[t] = NoCall
    /\ next_id < FirstFresh + MaxFresh
    /\ LET o == objs[h]
           sel == Selection(include, exclude)
           given == ModelDict(o.fields, sel.include, sel.exclude)
           document == IF "_id" \in DOMAIN given THEN given
                       ELSE DictMerge(given, OneKey("_id", next_id))
       IN  /\ \A d \in store[o.type] : d["_id"] # document["_id"]
           /\ log' = [log EXCEPT ![t] = << StoreCall("insert_one", o.type, given, <<>>) >>]
           /\ store' = [store EXCEPT ![o.type] = @ \cup {document}]
           /\ next_id' = IF "_id" \in DOMAIN given THEN next_id ELSE next_id + 1
           /\ objs' = [objs EXCEPT ![h].inserted = TRUE]
           /\ call' = [call EXCEPT ![t] =
                [op |-> "insert", arg |-> h, include |-> include, exclude |-> exclude,
                 exclude_after |-> ExcludeAfter(include, exclude),
                 pre |-> store, status |-> "ok", err |-> "", ret |-> document["_id"]]]
    /\ UNCHANGED <<relation_map, mgrs, stack>>

\* await model.insert(include=..., exclude=...): the document is the
\* selected fields; insert_one gives a document without _id a new ObjectId
\* and refuses a document whose _id is in the collection; then
\* model.id = document['_id']
Insert(t, h, include, exclude) ==
    /\ call[t] = NoCall
    /\ next_id < FirstFresh + MaxFresh
    /\ LET o == objs[h]
           sel == Selection(include, exclude)
           given == ModelDict(o.fields, sel.include, sel.exclude)
           document == IF "_id" \in DOMAIN given THEN given
                       ELSE DictMerge(given, OneKey("_id", next_id))
           err == IF \E d \in store[o.type] : d["_id"] = document["_id"]
                  THEN {"DuplicateKeyError"} ELSE {"", "PersistenceError"}
       IN  \E e \in err :
             /\ log' = [log EXCEPT ![t] = << StoreCall("insert_one", o.type, given, <<>>) >>]
             /\ store' = IF e = "" THEN [store EXCEPT ![o.type] = @ \cup {document}] ELSE store
             /\ next_id' = IF "_id" \in DOMAIN given THEN next_id ELSE next_id + 1
             /\ objs' = IF e = ""
                        THEN [objs EXCEPT ![h].fields["id"] = document["_id"],
                                          ![h].inserted = TRUE]
                        ELSE objs
             /\ call' = [call EXCEPT ![t] =
                  [op |-> "insert", arg |-> h, include |-> include, exclude |-> exclude,
                 exclude_after |-> ExcludeAfter(include, exclude),
                   pre |-> store, status |-> IF e = "" THEN "ok" ELSE "error", err |-> e,
                   ret |-> IF e = "" THEN document["_id"] ELSE None]]
    /\ UNCHANGED <<relation_map, mgrs, stack>>

\* await model.update(include=..., exclude=...): update_one({'_id': model.id},
\* {'$set': the selected fields}); no matching document is no error
Update(t, h, include, exclude) ==
    /\ Idle
    /\ LET o == objs[h]
           sel == Selection(include, exclude)
           set == ModelDict(o.fields, sel.include, sel.exclude)
           df == OneKey("_id", Eq(o.fields["id"]))
       IN  \E ok \in BOOLEAN :
             /\ log' = [log EXCEPT ![t] = << StoreCall("update_one", o.type, df, <<set>>) >>]
             /\ store' = IF ok
                         THEN [store EXCEPT ![o.type] =
                                 {IF Matches(d, df) THEN DictMerge(d, set) ELSE d : d \in @}]
                         ELSE store
             /\ call' = [call EXCEPT ![t] =
                  [op |-> "update", arg |-> h, include |-> include, exclude |-> exclude,
                   exclude_after |-> ExcludeAfter(include, exclude),
                   pre |-> store, status |-> IF ok THEN "ok" ELSE "error",
                   err |-> IF ok THEN "" ELSE "PersistenceError",
                   ret |-> IF ok THEN Cardinality(Find(o.type, df)) ELSE None]]
    /\ UNCHANGED <<relation_map, next_id, objs, mgrs, stack>>

\* await model.delete() on an instance the application holds
DeleteInstance(t, h) ==
    /\ objs[h].loaded
    /\ DeleteStart(t, Rec(objs[h].type, objs[h].fields))

----------------------------------------------------------------------------
(* Records on their own: an empty store, the registration, the one        *)
(* instance the application makes, and insert, update and delete calls on *)
(* it, one call at a time                                                 *)

InitCrud ==
    /\ relation_map = <<>>
    /\ store = [ty \in Types |-> {}]
    /\ next_id = FirstFresh
    /\ objs = <<>>
    /\ mgrs = NoManagers
    /\ stack = [t \in Tasks |-> <<>>]
    /\ call = [t \in Tasks |-> NoCall]
    /\ log = [t \in Tasks |-> <<>>]

NextCrud ==
    \/ \E r \in AppRelations : RegisterRelation(r)
    \/ \E ty \in Types : \E given \in NewFields(ty) : Construct(ty, given)
    \/ \E h \in DOMAIN objs : \E given \in NewFields(objs[h].type) : Assign(h, given)
    \/ \E t \in Tasks : \E h \in DOMAIN objs :
          \E inc \in IncludeArgs(objs[h].type) : \E exc \in ExcludeArgs(objs[h].type) :
              Idle /\ Insert(t, h, inc, exc)
    \/ \E t \in Tasks : \E h \in DOMAIN objs :
          \E inc \in IncludeArgs(objs[h].type) : \E exc \in ExcludeArgs(objs[h].type) :
              Update(t, h, inc, exc)
    \/ \E t \in Tasks : \E h \in DOMAIN objs : Idle /\ DeleteInstance(t, h)
    \/ \E t \in Tasks : DeleteFindAll(t)
    \/ \E t \in Tasks : DeleteOne(t)
    \/ \E t \in Tasks : Finish(t)

SpecCrud == InitCrud /\ [][NextCrud]_vars

----------------------------------------------------------------------------
(* Two instances of one document: the application has read the one child  *)
(* document twice; obj() calls on either instance and, in between,        *)
(* update_many and delete_many calls on the parents; one call at a time   *)

InitShared ==
    /\ relation_map = <<>>
    /\ \E p \in InitColls("P") : \E c \in InitDocs("C") :
          /\ store = [ty \in Types |-> CASE ty = "P" -> p [] ty = "C" -> {c} [] ty = "G" -> {}]
          /\ objs = << Instance("C", ParseObj("C", c, None), TRUE),
                       Instance("C", ParseObj("C", c, None), TRUE) >>
    /\ next_id = FirstFresh
    /\ mgrs = NoManagers
    /\ stack = [t \in Tasks |-> <<>>]
    /\ call = [t \in Tasks |-> NoCall]
    /\ log = [t \in Tasks |-> <<>>]

NextShared ==
    \/ \E r \in AppRelations : RegisterRelation(r)
    \/ \E t \in Tasks : \E h \in DOMAIN objs : \E r \in AppRelations : Idle /\ ObjCall(t, h, r)
    \/ \E t \in Tasks : ObjFindOne(t)
    \/ \E t \in Tasks : ObjReturn(t)
    \/ \E t \in Tasks : \E df \in Filters("P") : \E upd \in Updates("P") :
          Idle /\ UpdateManyOp(t, "P", df, upd)
    \/ \E t \in Tasks : \E df \in Filters("P") : Idle /\ DeleteManyOp(t, "P", df)
    \/ \E t \in Tasks : Finish(t)

SpecShared == InitShared /\ [][NextShared]_vars

----------------------------------------------------------------------------
(* The accessor under concurrency: one instance of the child; the tasks   *)
(* call obj() on it at the same time, each going on at its own pace from  *)
(* one await to the next, and a task that is free changes the parents     *)

InitRace ==
    /\ relation_map = <<>>
    /\ \E p \in InitColls("P") : \E c \in InitDocs("C") :
          /\ store = [ty \in Types |-> CASE ty = "P" -> p [] ty = "C" -> {c} [] ty = "G" -> {}]
          /\ objs = << Instance("C", ParseObj("C", c, None), TRUE) >>
    /\ next_id = FirstFresh
    /\ mgrs = NoManagers
    /\ stack = [t \in Tasks |-> <<>>]
    /\ call = [t \in Tasks |-> NoCall]
    /\ log = [t \in Tasks |-> <<>>]

NextRace ==
    \/ \E r \in AppRelations : RegisterRelation(r)
    \/ \E t \in Tasks : \E h \in DOMAIN objs : \E r \in AppRelations : ObjCall(t, h, r)
    \/ \E t \in Tasks : ObjFindOne(t)
    \/ \E t \in Tasks : ObjReturn(t)
    \/ \E t \in Tasks : \E upd \in Updates("P") : UpdateManyOp(t, "P", EmptyFilter, upd)
    \/ \E t \in Tasks : Finish(t)

SpecRace == InitRace /\ [][NextRace]_vars

\* the event loop runs every coroutine that can go on: a lookup that was
\* sent to the store is answered, and an answered lookup returns
SpecRaceFair ==
    /\ SpecRace
    /\ \A t \in Tasks : WF_vars(ObjFindOne(t)) /\ WF_vars(ObjReturn(t))

----------------------------------------------------------------------------
(* The cascade over any field values: a reference field is an ObjectId    *)
(* field and holds what the application gave it, also the identifier of a *)
(* record of another type than the relation's parent                      *)

MaxDepth == 4      \* frames a delete may have on its stack

\* the documents a collection may hold initially, a reference holding the
\* identifier of a record of any type that is a parent or a child
LooseDocs(ty) ==
    CASE ty = "P" -> InitDocs("P")
      [] ty = "C" -> {[k \in {"_id", "p_ref"} |-> IF k = "_id" THEN i ELSE r] :
                         i \in CIds, r \in PIds \cup GIds}
      [] ty = "G" -> {[k \in {"_id", "c_ref"} |-> IF k = "_id" THEN i ELSE r] :
                         i \in GIds, r \in CIds \cup PIds}

LooseColls(ty) == {S \in SUBSET LooseDocs(ty) : UniqueIds(S)}

InitLoose ==
    /\ relation_map = <<>>
    /\ \E p \in LooseColls("P") : \E c \in LooseColls("C") : \E g \in LooseColls("G") :
          store = [ty \in Types |-> CASE ty = "P" -> p [] ty = "C" -> c [] ty = "G" -> g]
    /\ next_id = FirstFresh
    /\ objs = <<>>
    /\ mgrs = NoManagers
    /\ stack = [t \in Tasks |-> <<>>]
    /\ call = [t \in Tasks |-> NoCall]
    /\ log = [t \in Tasks |-> <<>>]

\* delete calls, one call at a time
NextLoose ==
    \/ \E r \in AppRelations : RegisterRelation(r)
    \/ \E t \in Tasks : Idle /\ DeleteFetched(t)
    \/ \E t \in Tasks : Len(stack[t]) <= MaxDepth /\ DeleteFindAll(t)
    \/ \E t \in Tasks : DeleteOne(t)
    \/ \E t \in Tasks : Finish(t)

SpecLoose == InitLoose /\ [][NextLoose]_vars

\* a delete call and, while it runs, a delete call of another task for
\* the same record, each going on at its own pace from one await to the next
NextDouble ==
    \/ \E r \in AppRelations : RegisterRelation(r)
    \/ \E t \in Tasks : Idle /\ DeleteFetched(t)
    \/ \E t, u \in Tasks :
          /\ call[u].op = "delete" /\ call[u].status = "running"
          /\ DeleteStart(t, call[u].arg)
    \/ \E t \in Tasks : Len(stack[t]) <= MaxDepth /\ DeleteFindAll(t)
    \/ \E t \in Tasks : DeleteOne(t)
    \/ \E t \in Tasks : Finish(t)

SpecDouble == InitLoose /\ [][NextDouble]_vars

----------------------------------------------------------------------------
(* A relation on a field other than id: the forward accessor and obj()    *)

\* the application also keeps in P.val the identifier of a C and declares
\*     @PManager.relation_map('c_ref', 'val')  class G
\* the G records of a P are those whose c_ref is the P's val
KeyedRelations == { [parent |-> "P", edge |-> Edge("G", "c_ref", "val")] }

\* the P documents of that application
KeyedDocs ==
    {[k \in {"_id", "val"} |-> IF k = "_id" THEN i ELSE v] : i \in PIds, v \in CIds \cup {0}}

\* related_model_set(self): model_cls.manager({field_name: getattr(self, model_field_name)})
RelatedModelSet(o, r) ==
    Manager(r.edge.child, OneKey(r.edge.field_name, Eq(o.fields[r.edge.model_field_name])))

\* await self.<child>_set().find_all() on an instance of the parent
SetFindAll(t, h, r) ==
    /\ Idle
    /\ Registered(r)
    /\ objs[h].type = r.parent
    /\ LET m == RelatedModelSet(objs[h], r)
           found == Find(m.type, m.document_filter)
       IN  \E ok \in BOOLEAN : \E order \in Orderings(found) :
             LET valid == \A d \in found : Parses(m.type, d)
                 err == IF ~ok THEN "PersistenceError"
                        ELSE IF ~valid THEN "ValidationError" ELSE ""
             IN  /\ log' = [log EXCEPT ![t] =
                               << StoreCall("find", m.type, m.document_filter, <<>>) >>]
                 /\ call' = [call EXCEPT ![t] =
                       [op |-> "set", arg |-> h, rel |-> r, pre |-> store,
                        status |-> IF err = "" THEN "ok" ELSE "error", err |-> err,
                        ret |-> IF err # "" THEN <<>>
                                ELSE [i \in DOMAIN order |->
                                        Rec(m.type, ParseObj(m.type, order[i], None))]]]
    /\ UNCHANGED <<relation_map, store, next_id, objs, mgrs, stack>>

InitKeyed ==
    /\ relation_map = <<>>
    /\ \E p \in {S \in SUBSET KeyedDocs : UniqueIds(S)} :
       \E c \in InitColls("C") : \E g \in InitColls("G") :
          store = [ty \in Types |-> CASE ty = "P" -> p [] ty = "C" -> c [] ty = "G" -> g]
    /\ next_id = FirstFresh
    /\ objs = <<>>
    /\ mgrs = NoManagers
    /\ stack = [t \in Tasks |-> <<>>]
    /\ call = [t \in Tasks |-> NoCall]
    /\ log = [t \in Tasks |-> <<>>]

NextKeyed ==
    \/ \E r \in AppRelations \cup KeyedRelations : RegisterRelation(r)
    \/ \E ty \in Types : \E d \in store[ty] : Load(ty, d)
    \/ \E t \in Tasks : \E h \in DOMAIN objs : \E r \in AppRelations \cup KeyedRelations :
          SetFindAll(t, h, r)
    \/ \E t \in Tasks : \E h \in DOMAIN objs : \E r \in AppRelations \cup KeyedRelations :
          Idle /\ Registered(r) /\ ObjCall(t, h, r)
    \/ \E t \in Tasks : ObjFindOne(t)
    \/ \E t \in Tasks : ObjReturn(t)
    \/ \E t \in Tasks : Finish(t)

SpecKeyed == InitKeyed /\ [][NextKeyed]_vars

----------------------------------------------------------------------------
(* A delete of a parent and an insert of a child at the same time: the    *)
(* application has made a child that references a stored parent; one task *)
(* deletes parents, another inserts the child until the store has taken   *)
(* it, each going on at its own pace from one await to the next           *)

InitOrphan ==
    /\ relation_map = <<>>
    /\ \E p \in InitColls("P") : \E c \in InitColls("C") :
          store = [ty \in Types |-> CASE ty = "P" -> p [] ty = "C" -> c [] ty = "G" -> {}]
    /\ next_id = FirstFresh
    /\ objs = <<>>
    /\ mgrs = NoManagers
    /\ stack = [t \in Tasks |-> <<>>]
    /\ call = [t \in Tasks |-> NoCall]
    /\ log = [t \in Tasks |-> <<>>]

Deleter == "t1"
Inserter == "t2"

NextOrphan ==
    \/ \E r \in AppRelations : RegisterRelation(r)
    \/ \E given \in NewFields("C") : Construct("C", given)
    \/ \E h \in DOMAIN objs : ~objs[h].inserted /\ Insert(Inserter, h, NotGiven, NotGiven)
    \/ \E d \in store["P"] : DeleteStart(Deleter, Rec("P", ParseObj("P", d, None)))
    \/ DeleteFindAll(Deleter)
    \/ DeleteOne(Deleter)
    \/ \E t \in Tasks : Finish(t)

SpecOrphan == InitOrphan /\ [][NextOrphan]_vars

----------------------------------------------------------------------------
(* What the relations mean: the records of a store and who references whom *)

Items(s) == UNION {{Rec(ty, ParseObj(ty, d, None)) : d \in s[ty]} : ty \in Types}

\* c references p through a relation registered on p's manager
IsChild(c, p) ==
    \E r \in AppRelations :
        /\ r.parent = p.type
        /\ r.edge.child = c.type
        /\ c.fields[r.edge.field_name] = p.fields[r.edge.model_field_name]

RECURSIVE Family(_, _)
\* the records of store s that reference a record of S, directly or through others
Family(s, S) ==
    LET more == {c \in Items(s) : \E p \in S : IsChild(c, p)} \ S
    IN  IF more = {} THEN S ELSE Family(s, S \cup more)

Stored(x) == \E d \in store[x.type] : d["_id"] = x.fields["id"]

\* the positions of log[t] that are delete_one calls, and the records
\* deleted before position i
Deletes(t) == {i \in DOMAIN log[t] : log[t][i].op = "delete_one"}
DeletedBefore(t, i) == {log[t][j].model : j \in {j \in Deletes(t) : j < i}}
Finds(t, m) == {i \in DOMAIN log[t] : log[t][i].op = "find" /\ log[t][i].model = m}

----------------------------------------------------------------------------
(* C1: after delete(P) has returned, with no other call running meanwhile *)
(* and no store failure, the store holds neither P nor any record that    *)
(* referenced P, directly or through other records, when the call began   *)
CascadeComplete ==
    \A t \in Tasks :
        (call[t].op = "delete" /\ call[t].status = "ok") =>
            \A x \in Family(call[t].pre, {call[t].arg}) : ~Stored(x)

\* delete(P) has returned for a P with two children and a grandchild
CascadeCompleteWitness ==
    \E t \in Tasks :
        /\ call[t].op = "delete" /\ call[t].status = "ok"
        /\ call[t].arg.type = "P"
        /\ Cardinality({x \in Family(call[t].pre, {call[t].arg}) : x.type = "C"}) >= 2
        /\ \E x \in Family(call[t].pre, {call[t].arg}) : x.type = "G"

----------------------------------------------------------------------------
(* C2: in a delete(P), the delete_one of a record's document comes after  *)
(* the find of every relation for that record and after the delete_one of *)
(* every record those finds returned; the finds of a record follow the    *)
(* order of registration, one relation being finished before the next is  *)
(* fetched, and the records a find returned are deleted one after the     *)
(* other in the order it returned them                                    *)
CascadeOrdered ==
    \A t \in Tasks :
        call[t].op = "delete" =>
            /\ \A i \in Deletes(t) :
                  LET m == log[t][i].model
                  IN  /\ Cardinality({j \in Finds(t, m) : j < i}) = Len(relation_map)
                      /\ \A j \in Finds(t, m) : \A n \in DOMAIN log[t][j].res :
                            log[t][j].res[n] \in DeletedBefore(t, i)
            /\ \A j \in DOMAIN log[t] :
                  log[t][j].op = "find" =>
                      LET m == log[t][j].model
                          res == log[t][j].res
                          rank == Cardinality({q \in Finds(t, m) : q < j}) + 1
                      IN  /\ rank <= Len(relation_map)
                          /\ log[t][j].coll = relation_map[rank].child
                          /\ \A q \in Finds(t, m) : q < j =>
                                \A n \in DOMAIN log[t][q].res :
                                    log[t][q].res[n] \in DeletedBefore(t, j)
                          /\ \A n \in DOMAIN res : \A q \in DOMAIN log[t] :
                                (n > 1 /\ log[t][q].model = res[n]) =>
                                    (q > j /\ res[n - 1] \in DeletedBefore(t, q))

\* a delete(P) has deleted P's document after two fetched children, one of
\* which had a child of its own
CascadeOrderedWitness ==
    \E t \in Tasks :
        /\ call[t].op = "delete" /\ call[t].status = "ok"
        /\ \E j \in Finds(t, call[t].arg) : Len(log[t][j].res) = 2
        /\ \E i, j \in Deletes(t) :
              /\ i < j
              /\ log[t][i].coll = "G" /\ log[t][j].coll = "C"
              /\ IsChild(log[t][i].model, log[t][j].model)
        /\ log[t][Len(log[t])].model = call[t].arg

----------------------------------------------------------------------------
(* C3: when a store call of the cascade fails, delete(P) ends with that   *)
(* error and takes no further step, P's document is still stored, the     *)
(* records deleted before the failure stay deleted and nothing else has   *)
(* been removed                                                          *)
CascadeAborts ==
    \A t \in Tasks :
        (call[t].op = "delete" /\ call[t].status = "error") =>
            /\ stack[t] = <<>>
            /\ Stored(call[t].arg)
            /\ Items(store) = Items(call[t].pre) \ DeletedBefore(t, Len(log[t]))

\* the delete_one of a cascaded child failed after another child was deleted
CascadeAbortsWitness ==
    \E t \in Tasks :
        /\ call[t].op = "delete" /\ call[t].status = "error"
        /\ call[t].arg.type = "P"
        /\ log[t][Len(log[t])].op = "delete_one"
        /\ log[t][Len(log[t])].coll = "C"
        /\ Stored(log[t][Len(log[t])].model)
        /\ \E x \in DeletedBefore(t, Len(log[t])) : x.type = "C" /\ ~Stored(x)

----------------------------------------------------------------------------
(* C4: delete_many removes the documents of the manager's own collection  *)
(* that match its document_filter and nothing else: every other document, *)
(* of this and of every other collection, is left as it was               *)
DeleteManyNoCascade ==
    \A t \in Tasks :
        call[t].op = "delete_many" =>
            LET ty == call[t].arg.type
                df == call[t].arg.fields
            IN  IF call[t].status = "ok"
                THEN /\ store[ty] = {d \in call[t].pre[ty] : ~Matches(d, df)}
                     /\ \A x \in Types \ {ty} : store[x] = call[t].pre[x]
                ELSE store = call[t].pre

\* a delete_many on the parents has removed a parent whose child is still
\* stored
DeleteManyNoCascadeWitness ==
    \E t \in Tasks :
        /\ call[t].op = "delete_many" /\ call[t].status = "ok"
        /\ call[t].arg.type = "P"
        /\ \E p \in call[t].pre["P"] :
              /\ p \notin store["P"]
              /\ \E c \in store["C"] : c["p_ref"] = p["_id"]

----------------------------------------------------------------------------
(* C5: once obj() has returned for an instance, the returned object is    *)
(* what the cache slot holds; from then on the slot keeps that very       *)
(* object, unchanged, whatever happens to the parent's document, no       *)
(* further lookup is issued for the instance, and every later obj() call  *)
(* returns the object at once, without a store call                       *)
ReturnedIsCached ==
    \A t \in Tasks :
        (call[t].op = "obj" /\ call[t].status = "ok") =>
            /\ call[t].ret # None
            /\ Cached(objs[call[t].arg], CachedKey(call[t].rel)) = call[t].ret

CachedStaysStep ==
    \A h \in DOMAIN objs : \A r \in AppRelations :
        LET was == Cached(objs[h], CachedKey(r))
        IN  was # None =>
              /\ Cached(objs'[h], CachedKey(r)) = was
              /\ objs'[was] = objs[was]
              /\ objs'[h].lookups = objs[h].lookups
              /\ \A t \in Tasks :
                    ( /\ call[t] = NoCall
                      /\ call'[t].op = "obj"
                      /\ call'[t].arg = h
                      /\ call'[t].rel = r ) =>
                        /\ call'[t].status = "ok"
                        /\ call'[t].ret = was
                        /\ stack'[t] = <<>>
                        /\ log'[t] = <<>>

ReverseCached == []ReturnedIsCached /\ [][CachedStaysStep]_vars

\* a second obj() call has returned the cached parent without a store call,
\* after one lookup in all, although the parent's document has changed or
\* gone since
ReverseCachedWitness ==
    \E t \in Tasks :
        /\ call[t].op = "obj" /\ call[t].status = "ok"
        /\ log[t] = <<>>
        /\ objs[call[t].arg].lookups = 1
        /\ ~(\E d \in store["P"] : ParseObj("P", d, None) = objs[call[t].ret].fields)

----------------------------------------------------------------------------
(* C6 as claimed: after obj() found no parent document, the outcome is    *)
(* kept in the cache slot and the instance issues no second lookup        *)
NotFoundCached ==
    \A t \in Tasks :
        (call[t].op = "obj" /\ call[t].status = "error" /\ call[t].err = "ValueError") =>
            /\ CachedKey(call[t].rel) \in DOMAIN objs[call[t].arg].cache
            /\ objs[call[t].arg].lookups <= 1

(* C6 as amended: an obj() call that finds no parent document ends with   *)
(* find_one's ValueError after its one lookup and leaves the cache slot   *)
(* empty; every obj() call on an instance whose slot is empty issues a    *)
(* lookup of its own                                                      *)
NotFoundLeavesSlotEmpty ==
    \A t \in Tasks :
        (call[t].op = "obj" /\ call[t].status = "error" /\ call[t].err = "ValueError") =>
            /\ CachedKey(call[t].rel) \notin DOMAIN objs[call[t].arg].cache
            /\ Len(log[t]) = 1 /\ log[t][1].op = "find_one"

EmptySlotLooksUpStep ==
    \A t \in Tasks :
        ( /\ call[t] = NoCall
          /\ call'[t].op = "obj"
          /\ Cached(objs[call'[t].arg], CachedKey(call'[t].rel)) = None ) =>
            /\ call'[t].status = "running"
            /\ stack'[t] # <<>>
            /\ objs'[call'[t].arg].lookups = objs[call'[t].arg].lookups + 1

NotFoundNotCached == []NotFoundLeavesSlotEmpty /\ [][EmptySlotLooksUpStep]_vars

\* the second obj() call of an instance has issued its own lookup and has
\* found no parent document either
NotFoundNotCachedWitness ==
    \E t \in Tasks :
        /\ call[t].op = "obj" /\ call[t].status = "error" /\ call[t].err = "ValueError"
        /\ objs[call[t].arg].lookups = 2
        /\ Len(log[t]) = 1

----------------------------------------------------------------------------
(* C7: filter() returns a manager whose filter has the predicate's keys   *)
(* with the predicate's values and the receiver's other keys unchanged,   *)
(* and leaves the receiver as it was; a later find_one on one manager     *)
(* leaves the other managers as they were; and for every filter(a) made   *)
(* on a manager and every predicate b without a common key with a,        *)
(* filter(a).filter(b), filter(b).filter(a) and filter(a merged with b)   *)
(* of that manager have the same filter                                   *)

\* the union of two predicates without a common key
Merged(a, b) == [k \in DOMAIN a \cup DOMAIN b |-> IF k \in DOMAIN a THEN a[k] ELSE b[k]]

FilterMerges ==
    /\ \A t \in Tasks :
          call[t].op = "filter" =>
              LET old == call[t].pre[call[t].arg].document_filter
                  p == call[t].pred
                  new == mgrs["n"].document_filter
              IN  /\ call[t].arg # "n" => mgrs[call[t].arg] = call[t].pre[call[t].arg]
                  /\ DOMAIN new = DOMAIN old \cup DOMAIN p
                  /\ \A k \in DOMAIN p : new[k] = p[k]
                  /\ \A k \in DOMAIN old \ DOMAIN p : new[k] = old[k]
    /\ \A t \in Tasks :
          call[t].op = "find_one" =>
              \A y \in MgrRefs \ {call[t].arg} : mgrs[y] = call[t].pre[y]
    /\ \A t \in Tasks :
          call[t].op = "filter" =>
              LET self == call[t].pre[call[t].arg]
                  a == call[t].pred
              IN  \A b \in Preds(self.type) :
                      DOMAIN a \cap DOMAIN b = {} =>
                          LET ab == FilterOp(mgrs["n"], Given(b))
                              ba == FilterOp(FilterOp(self, Given(b)), Given(a))
                              one == FilterOp(self, Given(Merged(a, b)))
                          IN  /\ ab.document_filter = one.document_filter
                              /\ ba.document_filter = one.document_filter

\* n = m.filter(a).filter(b) for two predicates without a common key: n has
\* the filter of m.filter(a merged with b) and m still has its own
FilterMergesWitness ==
    \E t \in Tasks :
        /\ call[t].op = "filter" /\ call[t].arg = "n"
        /\ mgrs["m"] # NoMgr
        /\ \E a, b \in Preds("C") \ {EmptyFilter} :
              /\ DOMAIN a \cap DOMAIN b = {}
              /\ call[t].pred = b
              /\ call[t].pre["n"] = FilterOp(mgrs["m"], Given(a))
              /\ mgrs["n"] = FilterOp(mgrs["m"], Given(Merged(a, b)))
              /\ mgrs["n"] # mgrs["m"]

----------------------------------------------------------------------------
(* C8: when no document matches the filter find_one sends to the store,   *)
(* find_one returns no record (None) if raise_exception is false and      *)
(* raises ValueError if it is true; when a document matches, find_one     *)
(* returns the record parsed from a matching document in both cases       *)
FindOneMissingPolicy ==
    \A t \in Tasks :
        (call[t].op = "find_one" /\ call[t].err # "PersistenceError") =>
            LET ty == call[t].pre[call[t].arg].type
                matched == Find(ty, log[t][1].model)
            IN  IF matched = {}
                THEN IF call[t].raise_exception
                     THEN call[t].status = "error" /\ call[t].err = "ValueError"
                     ELSE call[t].status = "ok" /\ call[t].ret = <<>>
                ELSE /\ call[t].status = "ok"
                     /\ \E d \in matched : call[t].ret = << Rec(ty, ParseObj(ty, d, None)) >>

\* a find_one with raise_exception=False has returned None for an
\* identifier no stored document has
FindOneMissingPolicyWitness ==
    \E t \in Tasks :
        /\ call[t].op = "find_one" /\ call[t].status = "ok"
        /\ ~call[t].raise_exception
        /\ call[t].id # None
        /\ call[t].ret = <<>>
        /\ Find("C", log[t][1].model) = {}

----------------------------------------------------------------------------
(* C9 as claimed: after every successful insert(r), r.id is set and is    *)
(* the identifier of the stored document, and find_one(r.id) on a new     *)
(* manager of r's type returns a record equal to r in every field         *)

\* the documents cls().find_one(id) asks the store for
ReadBack(ty, id) == Find(ty, DictMerge(EmptyFilter, OneKey("_id", Eq(id))))

\* whether the fields insert selected are all of r's fields but, possibly, id
WholeRecord(c, o) ==
    LET sel == Selection(c.include, c.exclude)
    IN  \A f \in Fields(o.type) \ {"id"} :
            Alias(f) \in DOMAIN ModelDict(o.fields, sel.include, sel.exclude)

InsertReadBack ==
    \A t \in Tasks :
        (call[t].op = "insert" /\ call[t].status = "ok") =>
            LET o == objs[call[t].arg]
            IN  /\ o.fields["id"] # None
                /\ o.fields["id"] = call[t].ret
                /\ ReadBack(o.type, o.fields["id"]) # {}
                /\ \A d \in ReadBack(o.type, o.fields["id"]) :
                      Parses(o.type, d) /\ ParseObj(o.type, d, None) = o.fields

(* C9 as amended: after every successful insert(r), r.id is set and is    *)
(* the identifier of the one stored document find_one(r.id) finds; when   *)
(* the insert selected every field of r other than id, that document      *)
(* parses into a record equal to r in every field                         *)
InsertReadBackWhole ==
    \A t \in Tasks :
        (call[t].op = "insert" /\ call[t].status = "ok") =>
            LET o == objs[call[t].arg]
            IN  /\ o.fields["id"] # None
                /\ o.fields["id"] = call[t].ret
                /\ Cardinality(ReadBack(o.type, o.fields["id"])) = 1
                /\ WholeRecord(call[t], o) =>
                      \A d \in ReadBack(o.type, o.fields["id"]) :
                          Parses(o.type, d) /\ ParseObj(o.type, d, None) = o.fields

\* an insert without include and exclude has given the record the store's
\* identifier and the stored document parses into the record
InsertReadBackWholeWitness ==
    \E t \in Tasks :
        /\ call[t].op = "insert" /\ call[t].status = "ok"
        /\ call[t].include = NotGiven /\ call[t].exclude = NotGiven
        /\ "_id" \notin DOMAIN log[t][1].model
        /\ \E d \in store[objs[call[t].arg].type] :
              /\ d["_id"] = objs[call[t].arg].fields["id"]
              /\ ParseObj(objs[call[t].arg].type, d, None) = objs[call[t].arg].fields

----------------------------------------------------------------------------
(* C10 as claimed: once an insert of an instance has succeeded, no step   *)
(* changes the instance's id                                              *)
IdKeptStep ==
    \A h \in DOMAIN objs :
        objs[h].inserted => objs'[h].fields["id"] = objs[h].fields["id"]

IdImmutable == [][IdKeptStep]_vars

(* C10 as amended: once an insert of an instance has succeeded, the only  *)
(* step that changes the instance's id is another successful insert of    *)
(* the instance whose document carries no _id, which gives it the new     *)
(* ObjectId of the document it stores; update, delete, a failed insert    *)
(* and an insert that selects id leave the id as it is                    *)
IdChangeStep ==
    \A h \in DOMAIN objs :
        (objs[h].inserted /\ objs'[h].fields["id"] # objs[h].fields["id"]) =>
            \E t \in Tasks :
                /\ call[t] = NoCall
                /\ call'[t].op = "insert" /\ call'[t].arg = h /\ call'[t].status = "ok"
                /\ "_id" \notin DOMAIN log'[t][1].model
                /\ objs'[h].fields["id"] = next_id
                /\ \E d \in store'[objs[h].type] \ store[objs[h].type] : d["_id"] = next_id

UnchangedIdStep ==
    \A t \in Tasks :
        ( /\ call[t] = NoCall
          /\ call'[t].op \in {"insert", "update"}
          /\ objs[call'[t].arg].inserted
          /\ \/ call'[t].op = "update"
             \/ call'[t].status = "error"
             \/ "_id" \in DOMAIN log'[t][1].model ) =>
            objs'[call'[t].arg].fields["id"] = objs[call'[t].arg].fields["id"]

IdStableButReinsert == [][IdChangeStep /\ UnchangedIdStep]_vars

\* a delete of an inserted instance has returned after the instance's id
\* still found its document
IdStableButReinsertWitness ==
    \E t \in Tasks : \E h \in DOMAIN objs :
        /\ call[t].op = "delete" /\ call[t].status = "ok"
        /\ call[t].ret = 1
        /\ objs[h].inserted
        /\ call[t].arg = Rec(objs[h].type, objs[h].fields)
        /\ \E d \in call[t].pre[objs[h].type] : d["_id"] = objs[h].fields["id"]

----------------------------------------------------------------------------
(* C11: the cache of an instance changes only in the step in which an     *)
(* obj() call on that instance returns the parent it looked up, and then  *)
(* only at that relation's key; an obj() call on an instance whose slot   *)
(* is empty issues a lookup of its own, whatever the slots of the other   *)
(* instances hold; two instances never hold the same cached object, and a *)
(* cache has no other keys than the relations' names                      *)
OwnCacheStep ==
    \A h \in DOMAIN objs :
        objs'[h].cache # objs[h].cache =>
            \E t \in Tasks :
                /\ call[t].op = "obj" /\ call[t].status = "running" /\ call[t].arg = h
                /\ call'[t].status = "ok"
                /\ objs'[h].cache =
                      DictMerge(objs[h].cache, OneKey(CachedKey(call[t].rel), call'[t].ret))

OwnLookupStep ==
    \A t \in Tasks :
        ( /\ call[t] = NoCall
          /\ call'[t].op = "obj"
          /\ Cached(objs[call'[t].arg], CachedKey(call'[t].rel)) = None ) =>
            /\ call'[t].status = "running"
            /\ objs'[call'[t].arg].lookups = objs[call'[t].arg].lookups + 1

CachesApart ==
    /\ \A h \in DOMAIN objs :
          /\ DOMAIN objs[h].cache \subseteq {CachedKey(r) : r \in AppRelations}
          /\ \A k \in DOMAIN objs[h].cache : objs[h].lookups >= 1
    /\ \A h1, h2 \in DOMAIN objs :
          \A k1 \in DOMAIN objs[h1].cache : \A k2 \in DOMAIN objs[h2].cache :
              objs[h1].cache[k1] = objs[h2].cache[k2] => h1 = h2

CacheIsolated == []CachesApart /\ [][OwnCacheStep /\ OwnLookupStep]_vars

\* both instances of the document hold a parent, each its own, after one
\* lookup each
CacheIsolatedWitness ==
    /\ Len(objs) >= 2
    /\ objs[1].fields = objs[2].fields
    /\ Cached(objs[1], "p") # None /\ Cached(objs[2], "p") # None
    /\ Cached(objs[1], "p") # Cached(objs[2], "p")
    /\ objs[1].lookups = 1 /\ objs[2].lookups = 1

----------------------------------------------------------------------------
(* C12: the document insert and update write has exactly the include      *)
(* fields when include is given, and otherwise all declared fields but    *)
(* those of exclude, exclude being the identifier field alone when the    *)
(* caller gives none; each field has the record's value; and the caller's *)
(* exclude argument is after the call what it was before                  *)

\* the fields the claim selects
Selected(ty, include, exclude) ==
    IF include # NotGiven THEN include[1]
    ELSE Fields(ty) \ (IF exclude = NotGiven THEN {"id"} ELSE exclude[1])

\* the document a call handed to insert_one, or to update_one under $set
Written(t) ==
    IF call[t].op = "insert" THEN log[t][1].model ELSE log[t][1].res[1]

FieldSelection ==
    \A t \in Tasks :
        call[t].op \in {"insert", "update"} =>
            LET o == objs[call[t].arg]
            IN  /\ DOMAIN Written(t) =
                      {Alias(f) : f \in Selected(o.type, call[t].include, call[t].exclude)}
                /\ \A k \in DOMAIN Written(t) : Written(t)[k] = o.fields[FieldOf(k)]
                /\ call[t].exclude_after = call[t].exclude

----------------------------------------------------------------------------
(* C13: every child lookup a delete makes for a record is for a relation  *)
(* registered on the manager of that record's type, and the delete of a   *)
(* record whose manager has no relation makes one store call, the         *)
(* delete_one of the record's document                                    *)
RegistryPerManager ==
    \A t \in Tasks :
        call[t].op = "delete" =>
            /\ \A i \in DOMAIN log[t] :
                  log[t][i].op = "find" =>
                      \E r \in AppRelations :
                          /\ r.parent = log[t][i].model.type
                          /\ r.edge.child = log[t][i].coll
            /\ ( /\ call[t].status = "ok"
                 /\ \A r \in AppRelations : r.parent # call[t].arg.type ) =>
                   /\ Len(log[t]) = 1
                   /\ log[t][1].op = "delete_one"

----------------------------------------------------------------------------
(* C14: with the tasks calling obj() on one instance at the same time,    *)
(* every call issues at most one lookup, and one only if it found the     *)
(* slot empty; a call whose lookup found the parent puts the object it    *)
(* parsed from its own lookup into the slot, over whatever another call   *)
(* put there meanwhile, and nothing else changes the slot, so the slot    *)
(* holds the value of the lookup that returned last; a call that finds    *)
(* the slot filled returns its object without a store call; and every     *)
(* call that has started comes to its end                                 *)
AtMostOneLookup ==
    \A t \in Tasks :
        call[t].op = "obj" =>
            /\ Len(log[t]) <= 1
            /\ (Len(log[t]) = 1 \/ stack[t] # <<>>) => objs[call[t].arg].lookups >= 1
            /\ \A k \in DOMAIN objs[call[t].arg].cache : objs[call[t].arg].lookups >= 1

LastWriteStep ==
    \A t \in Tasks :
        (call[t].op = "obj" /\ call[t].status = "running" /\ call'[t].status = "ok") =>
            LET h == call[t].arg
                key == CachedKey(call[t].rel)
            IN  /\ call'[t].ret \notin DOMAIN objs
                /\ objs'[call'[t].ret].fields =
                      ParseObj(call[t].rel.parent, Top(t).doc[1], None)
                /\ Cached(objs'[h], key) = call'[t].ret

SlotWrittenStep ==
    \A h \in DOMAIN objs :
        objs'[h].cache # objs[h].cache =>
            \E t \in Tasks :
                /\ call[t].op = "obj" /\ call[t].status = "running" /\ call[t].arg = h
                /\ call'[t].status = "ok"

FilledSlotStep ==
    \A t \in Tasks :
        ( /\ call[t] = NoCall
          /\ call'[t].op = "obj"
          /\ Cached(objs[call'[t].arg], CachedKey(call'[t].rel)) # None ) =>
            /\ call'[t].status = "ok"
            /\ call'[t].ret = Cached(objs[call'[t].arg], CachedKey(call'[t].rel))
            /\ log'[t] = <<>>
            /\ objs' = objs

RaceSettles ==
    /\ []AtMostOneLookup
    /\ [][LastWriteStep /\ SlotWrittenStep /\ FilledSlotStep]_vars
    /\ \A t \in Tasks :
          (call[t].op = "obj" /\ call[t].status = "running") ~> (call[t].status # "running")

\* two calls on the instance have each looked up and returned a parent of
\* their own; the slot holds the one not written first
RaceSettlesWitness ==
    \E t, u \in Tasks :
        /\ t # u
        /\ call[t].op = "obj" /\ call[t].status = "ok" /\ Len(log[t]) = 1
        /\ call[u].op = "obj" /\ call[u].status = "ok" /\ Len(log[u]) = 1
        /\ call[t].arg = call[u].arg
        /\ call[t].ret < call[u].ret
        /\ objs[call[t].ret].fields # objs[call[u].ret].fields
        /\ Cached(objs[call[t].arg], "p") = call[u].ret
        /\ objs[call[t].arg].lookups = 2

----------------------------------------------------------------------------
(* C15: with the relations P <- C <- G, which have no cycle among the     *)
(* types, every delete comes to its end whatever the fields hold.  The    *)
(* store is finite and only the delete itself changes it, so a delete     *)
(* goes on for ever exactly when a record it is deleting is reached again *)
(* below itself (the document of a record goes after its children, so the *)
(* second visit finds what the first found): no record has two frames on  *)
(* the stack of a delete                                                  *)
CascadeTerminates ==
    \A t \in Tasks :
        \A i, j \in DOMAIN stack[t] :
            (call[t].op = "delete" /\ i < j) => stack[t][i].model # stack[t][j].model

----------------------------------------------------------------------------
(* C16: for every registered relation, when obj() on a fresh instance of  *)
(* a child has come to its end without a failure of the store, and the    *)
(* child is among the records the forward accessor of a stored parent     *)
(* finds, then obj() has returned a parent, and one whose parent field    *)
(* has the value of the child's field                                     *)
ForwardReverse ==
    \A t \in Tasks :
        ( /\ call[t].op = "obj"
          /\ call[t].status # "running"
          /\ call[t].err # "PersistenceError" ) =>
            LET r == call[t].rel
                c == objs[call[t].arg]
                owners == {p \in store[r.parent] :
                              /\ Parses(r.parent, p)
                              /\ Matches(ModelDict(c.fields, NotGiven, NotGiven),
                                     RelatedModelSet(Rec(r.parent, ParseObj(r.parent, p, None)), r)
                                         .document_filter)}
            IN  owners # {} =>
                  /\ call[t].status = "ok"
                  /\ objs[call[t].ret].fields[r.edge.model_field_name]
                         = c.fields[r.edge.field_name]

----------------------------------------------------------------------------
(* C17: the documents the manager returned by m.filter(p) matches are     *)
(* those that both m's filter and p match, for every predicate p, also    *)
(* one with a key m's filter has                                          *)
FilterNarrows ==
    \A t \in Tasks :
        call[t].op = "filter" =>
            LET self == call[t].pre[call[t].arg]
            IN  Find(self.type, mgrs["n"].document_filter)
                  = Find(self.type, self.document_filter) \cap Find(self.type, call[t].pred)

----------------------------------------------------------------------------
(* C18: a find_one call, with or without an identifier, leaves the        *)
(* manager it is called on with the filter it had, so that the manager    *)
(* matches after the call the documents it matched before                 *)
StandingFilterKept ==
    \A t \in Tasks :
        call[t].op = "find_one" =>
            LET was == call[t].pre[call[t].arg]
                now == mgrs[call[t].arg]
            IN  /\ now.document_filter = was.document_filter
                /\ Find(now.type, now.document_filter) = Find(was.type, was.document_filter)

----------------------------------------------------------------------------
(* C19: a delete of a parent goes on while children that reference the    *)
(* parent are inserted.                                                   *)

\* the documents of st that reference model through a relation of its type
OrphansIn(st, model) ==
    UNION {{c \in st[r.edge.child] :
               /\ r.edge.field_name \in DOMAIN c
               /\ c[r.edge.field_name] = model.fields[r.edge.model_field_name]} :
           r \in {q \in AppRelations : q.parent = model.type}}

\* the step in which the delete call of task t returns without an error
DeleteReturns(t) ==
    /\ call[t].op = "delete"
    /\ call[t].status = "running"
    /\ call'[t].status = "ok"

\* C19 as the claim states it: in whatever order the steps of a delete of
\* a parent and of the inserts of children go, when the delete returns
\* without an error no stored child references the parent
NoOrphanLeft ==
    [][\A t \in Tasks : DeleteReturns(t) => OrphansIn(store', call[t].arg) = {}]_vars

\* entry e of a log is the cascade's lookup of the children of model through r
IsLookup(e, model, r) ==
    /\ e.op = "find"
    /\ e.coll = r.edge.child
    /\ e.model = model

\* what the cascade does see to: when a delete of a parent returns without
\* an error, it has looked up the children of every relation of the
\* parent's type, and none of the children that lookup returned is stored
\* any more: a stored child that references the parent is one whose insert
\* reached the store after the lookup
OnlyLateOrphans ==
    [][\A t \in Tasks : DeleteReturns(t) =>
          \A r \in {q \in AppRelations : q.parent = call[t].arg.type} :
              /\ \E i \in DOMAIN log'[t] : IsLookup(log'[t][i], call[t].arg, r)
              /\ \A i \in DOMAIN log'[t] :
                    IsLookup(log'[t][i], call[t].arg, r) =>
                        \A c \in OrphansIn(store', call[t].arg) \cap store'[r.edge.child] :
                            \A n \in DOMAIN log'[t][i].res :
                                log'[t][i].res[n].fields["id"] # c["_id"]]_vars

----------------------------------------------------------------------------
(* C20: when a second delete of a record is started while a first delete  *)
(* of that record is running, no failure other than one of the store ends *)
(* either call, and when both have returned the records stored are those  *)
(* stored when the first call began that are neither the record nor       *)
(* reference it, directly or through others: all of these and no others   *)
NoDoubleFreeHarm ==
    \A t, u \in Tasks :
        ( /\ t # u
          /\ call[t].op = "delete"
          /\ call[u].op = "delete"
          /\ call[t].arg = call[u].arg
          /\ \A ty \in Types : call[u].pre[ty] \subseteq call[t].pre[ty] ) =>
            /\ call[t].err \in {"", "PersistenceError"}
            /\ call[u].err \in {"", "PersistenceError"}
            /\ (call[t].status = "ok" /\ call[u].status = "ok") =>
                  Items(store) = Items(call[t].pre) \ Family(call[t].pre, {call[t].arg})

====
